---- MODULE Spec2Model ----
(***************************************************************************)
(* The document-relational mapping core of AbscenceHandler                 *)
(* (src/src/app/models/orm/util.ts, class Model, lines 33-424, and the     *)
(* decorators of src/unnamed/part_000, lines 376-429).                     *)
(*                                                                         *)
(* JavaScript runs one macrotask at a time: a user call or a store         *)
(* callback runs, with every promise reaction it triggers, until every     *)
(* chain it started waits for a store callback.  An action of the model is *)
(* one macrotask: Run takes the continuations that are ready (runq) one    *)
(* after the other until none is left.                                     *)
(***************************************************************************)
EXTENDS Integers, Sequences, FiniteSets, TLC

VARIABLES
  meta,     \* Model._metadata of every class: primaryKey, keys, relations
  objs,     \* the heap: objs[o] is the Model instance o (class, _id, fields)
  scen,     \* the name of the object graph user code built at the start
  cache,    \* Model._cache of every class: key -> instance (0 is null)
  store,    \* the nedb collection of every class: its documents in order
  pend,     \* store operations issued and not yet called back
  tasks,    \* the asynchronous calls in progress and the finished user calls
  stuck,    \* a macrotask recursed without end (the call stack overflows)
  nextId,   \* the number of identifiers the store has generated
  ops,      \* the number of user calls made
  fails,    \* the store operations that ended with an error, in order
  everStored, \* every <<class, _id>> a document was ever stored under
  decl      \* the decorator calls made so far, each with its outcome

vars == <<meta, objs, scen, cache, store, pend, tasks, stuck, nextId, ops, fails,
          everStored, decl>>

----------------------------------------------------------------------------
(* Bounds of the model *)

MaxOps   == 3    \* user calls (save, update, delete, find, assignments)
MaxFail  == 1    \* store operations that end with an error
MaxTasks == 24   \* asynchronous calls alive at one time
MaxDecl  == 2    \* decorator calls of a schema under construction

----------------------------------------------------------------------------
(* JavaScript values *)

UNDEF    == "<undefined>"   \* the value undefined
SENTINEL == "undefined"     \* the text written for an empty relation

\* if (v): undefined and the empty string are falsy
Truthy(v) == v # UNDEF /\ v # ""

\* obj[key] turns the key into a string: undefined reads the key "undefined"
PropKey(v) == IF v = UNDEF THEN "undefined" ELSE v

ONE_TO_ONE  == 1
MANY_TO_ONE == 2
ONE_TO_MANY == 3

Classes == {"T", "R", "N", "O", "K"}
Values  == {"v1", "v2"}

SeqToSet(s) == {s[k] : k \in 1..Len(s)}

RECURSIVE Filter(_, _)
\* the elements of sequence s that are in set S, in the order of s
Filter(s, S) ==
  IF s = <<>> THEN <<>>
  ELSE IF Head(s) \in S THEN <<Head(s)>> \o Filter(Tail(s), S)
  ELSE Filter(Tail(s), S)

----------------------------------------------------------------------------
(* Schema Registry: Model._getMetadata and Model._addColumn *)

\* _getMetadata: a class that declared nothing has { keys: [], relations: [] }
EmptyMetadata == [primaryKey |-> UNDEF, keys |-> <<>>, relations |-> <<>>]

NoRelation == [type |-> 0, dest |-> "", cascade |-> FALSE, backref |-> UNDEF]
ColumnOptions  == [primary |-> FALSE, relation |-> NoRelation]
PrimaryOptions == [primary |-> TRUE, relation |-> NoRelation]
RelationOptions(type, dest, cascade, backref) ==
  [primary |-> FALSE,
   relation |-> [type |-> type, dest |-> dest, cascade |-> cascade,
                 backref |-> backref]]

\* metadata.relations.push({ name: key, options: options.relation })
PushRelation(m, cls, key, rel) ==
  [m EXCEPT ![cls].relations = Append(@, [name |-> key, options |-> rel])]

\* _addColumn that registers nothing on the destination class
AddColumnOneSide(m, cls, key, options) ==
  IF options.primary THEN [m EXCEPT ![cls].primaryKey = key]
  ELSE IF options.relation.type # 0 THEN PushRelation(m, cls, key, options.relation)
  ELSE [m EXCEPT ![cls].keys = Append(@, key)]

\* Model._addColumn(key, options) called on class cls
AddColumn(m, cls, key, options) ==
  IF options.primary THEN [m EXCEPT ![cls].primaryKey = key]
  ELSE IF options.relation.type # 0 THEN
    LET m1 == PushRelation(m, cls, key, options.relation)
    IN IF options.relation.type = ONE_TO_MANY
       THEN \* the back reference on the other side: a MANY_TO_ONE to cls
            PushRelation(m1, options.relation.dest, options.relation.backref,
                         [type |-> MANY_TO_ONE, dest |-> cls,
                          cascade |-> FALSE, backref |-> UNDEF])
       ELSE m1
  ELSE [m EXCEPT ![cls].keys = Append(@, key)]

\* The entity classes of the model, declared as the decorators declare them:
\*   class T { @PrimaryColumn name }
\*   class R { @Column title }
\*   class N { @Column val;
\*             @Relation({type: ONE_TO_ONE, dest: N, cascade: true}) next;
\*             @Relation({type: ONE_TO_ONE, dest: T}) link }
\*   class O { @Relation({type: ONE_TO_MANY, dest: K, cascade: true,
\*                        backref: 'owner'}) kids }
\*   class K { }
Declarations ==
  << <<"T", "name", PrimaryOptions>>,
     <<"R", "title", ColumnOptions>>,
     <<"N", "val", ColumnOptions>>,
     <<"N", "next", RelationOptions(ONE_TO_ONE, "N", TRUE, UNDEF)>>,
     <<"N", "link", RelationOptions(ONE_TO_ONE, "T", FALSE, UNDEF)>>,
     <<"O", "kids", RelationOptions(ONE_TO_MANY, "K", TRUE, "owner")>> >>

RECURSIVE Declare(_, _)
Declare(m, ds) ==
  IF ds = <<>> THEN m
  ELSE Declare(AddColumn(m, Head(ds)[1], Head(ds)[2], Head(ds)[3]), Tail(ds))

DeclaredMeta == Declare([c \in Classes |-> EmptyMetadata], Declarations)

\* the decorator calls behind Declarations: none of them threw
Declared ==
  [k \in DOMAIN Declarations |->
     [target |-> Declarations[k][1], key |-> Declarations[k][2],
      options |-> Declarations[k][3], err |-> ""]]

\* the relations of class c whose type is in types, in metadata order
RelsOf(c, types) ==
  LET rs == meta[c].relations
  IN Filter(rs, {rs[k] : k \in {j \in 1..Len(rs) : rs[j].options.type \in types}})

SingleTypes == {ONE_TO_ONE, MANY_TO_ONE}

----------------------------------------------------------------------------
(* Instances *)

\* new cls(): the constructor sets every ONE_TO_MANY field to []; the other
\* fields are undefined (0 stands for no instance in a relation field)
FieldsOf(c) ==
  (IF meta[c].primaryKey # UNDEF THEN {meta[c].primaryKey} ELSE {})
  \cup SeqToSet(meta[c].keys)
  \cup {meta[c].relations[k].name : k \in 1..Len(meta[c].relations)}

RelNamed(c, name) ==
  LET rs == meta[c].relations
  IN rs[CHOOSE k \in 1..Len(rs) : rs[k].name = name]

IsRelField(c, name) == \E k \in 1..Len(meta[c].relations) : meta[c].relations[k].name = name

NewInstance(c) ==
  [cls |-> c, id |-> UNDEF, by |-> "load", asg |-> 0,
   f |-> [k \in FieldsOf(c) |->
            IF IsRelField(c, k)
            THEN IF RelNamed(c, k).options.type = ONE_TO_MANY THEN <<>> ELSE 0
            ELSE UNDEF]]

----------------------------------------------------------------------------
(* Documents: getRelationDBDocument and getDBDocument.  A document is a   *)
(* function from field paths to values; the nested _rel object is held as *)
(* the dotted paths "_rel.<name>" the store's queries address it by.  h   *)
(* is the heap the instance is read from.                                 *)

RelPath(name) == "_rel." \o name

\* getRelationDBDocument without the test on the relation's type: the array
\* of a ONE_TO_MANY relation is truthy and has no _id
GetRelationDBDocumentAll(h, o) ==
  LET rs == meta[h[o].cls].relations
  IN [p \in {RelPath(rs[k].name) : k \in 1..Len(rs)} |->
        LET r == rs[CHOOSE k \in 1..Len(rs) : RelPath(rs[k].name) = p]
            relModel == h[o].f[r.name]
        IN IF r.options.type = ONE_TO_MANY THEN UNDEF
           ELSE IF relModel # 0 THEN h[relModel].id ELSE SENTINEL]

\* obj[rel.name] = relModel ? relModel._id : "undefined", for the
\* ONE_TO_ONE and MANY_TO_ONE relations only
GetRelationDBDocument(h, o) ==
  LET rs == RelsOf(h[o].cls, SingleTypes)
  IN [p \in {RelPath(rs[k].name) : k \in 1..Len(rs)} |->
        LET r == rs[CHOOSE k \in 1..Len(rs) : RelPath(rs[k].name) = p]
            relModel == h[o].f[r.name]
        IN IF relModel # 0 THEN h[relModel].id ELSE SENTINEL]

\* getDBDocument without the loop over metadata.keys
GetDBDocumentNoKeys(h, o) ==
  LET c == h[o].cls
      idPart == IF meta[c].primaryKey # UNDEF
                THEN "_id" :> h[o].f[meta[c].primaryKey]
                ELSE IF Truthy(h[o].id) THEN "_id" :> h[o].id
                ELSE <<>>
  IN idPart @@ GetRelationDBDocument(h, o)

GetDBDocument(h, o) ==
  LET c == h[o].cls
      idPart == IF meta[c].primaryKey # UNDEF
                THEN "_id" :> h[o].f[meta[c].primaryKey]
                ELSE IF Truthy(h[o].id) THEN "_id" :> h[o].id
                ELSE <<>>
      keyPart == [k \in SeqToSet(meta[c].keys) |-> h[o].f[k]]
  IN idPart @@ keyPart @@ GetRelationDBDocument(h, o)

----------------------------------------------------------------------------
(* The document store (nedb), one collection per class.  An operation is  *)
(* queued when it is issued; a collection runs its operations in the      *)
(* order they were issued and calls back after each; collections are      *)
(* independent of each other.                                             *)

GenId(n) == "g" \o ToString(n)

HasId(doc) == "_id" \in DOMAIN doc /\ doc["_id"] # UNDEF

\* exact match of every field of the query; undefined matches nothing
Matches(doc, q) ==
  \A p \in DOMAIN q : q[p] # UNDEF /\ p \in DOMAIN doc /\ doc[p] = q[p]

FindDocs(c, q) == SelectSeq(store[c], LAMBDA d : Matches(d, q))

IdQuery(id) == "_id" :> id

\* insert keeps a given _id and generates one otherwise
InsertedDoc(doc) ==
  IF HasId(doc) THEN doc
  ELSE ("_id" :> GenId(nextId + 1)) @@ [p \in DOMAIN doc \ {"_id"} |-> doc[p]]

\* insert fails when the collection already holds the given _id
InsertFails(c, doc) ==
  HasId(doc) /\ \E k \in 1..Len(store[c]) : store[c][k]["_id"] = doc["_id"]

\* the position of the first document of collection c that matches q
FirstMatch(c, q) ==
  CHOOSE j \in 1..Len(store[c]) :
    /\ Matches(store[c][j], q)
    /\ \A h \in 1..(j-1) : ~Matches(store[c][h], q)

\* update replaces the first matching document, keeping its _id; it fails
\* when the replacement carries another _id
UpdateFails(c, q, doc) ==
  /\ FindDocs(c, q) # <<>>
  /\ HasId(doc) /\ doc["_id"] # store[c][FirstMatch(c, q)]["_id"]

UpdatedStore(c, q, doc) ==
  IF FindDocs(c, q) = <<>> THEN store[c]
  ELSE LET k == FirstMatch(c, q)
       IN [store[c] EXCEPT ![k] = ("_id" :> store[c][k]["_id"])
                                   @@ [p \in DOMAIN doc \ {"_id"} |-> doc[p]]]

\* remove deletes the first matching document
RemovedStore(c, q) ==
  IF FindDocs(c, q) = <<>> THEN store[c]
  ELSE LET k == FirstMatch(c, q)
       IN SubSeq(store[c], 1, k-1) \o SubSeq(store[c], k+1, Len(store[c]))

NoRet == [err |-> FALSE, val |-> <<>>, docs |-> <<>>, n |-> 0]

\* the operation at position k is the oldest one of its collection
OldestOfClass(k) == \A j \in 1..(k-1) : pend[j].cls # pend[k].cls

\* what the store passes to the callback of operation op
StoreResult(op, fail) ==
  IF fail THEN [NoRet EXCEPT !.err = TRUE]
  ELSE IF op.op = "insert" THEN
         IF InsertFails(op.cls, op.doc) THEN [NoRet EXCEPT !.err = TRUE]
         ELSE [NoRet EXCEPT !.docs = <<InsertedDoc(op.doc)>>]
  ELSE IF op.op = "update" THEN
         IF UpdateFails(op.cls, op.q, op.doc) THEN [NoRet EXCEPT !.err = TRUE]
         ELSE [NoRet EXCEPT !.n = IF FindDocs(op.cls, op.q) = <<>> THEN 0 ELSE 1]
  ELSE IF op.op = "remove" THEN
         [NoRet EXCEPT !.n = IF FindDocs(op.cls, op.q) = <<>> THEN 0 ELSE 1]
  ELSE [NoRet EXCEPT !.docs = FindDocs(op.cls, op.q)]

\* the collections after operation op
StoreAfter(op, r) ==
  IF r.err THEN store
  ELSE IF op.op = "insert" THEN [store EXCEPT ![op.cls] = Append(@, r.docs[1])]
  ELSE IF op.op = "update" THEN [store EXCEPT ![op.cls] = UpdatedStore(op.cls, op.q, op.doc)]
  ELSE IF op.op = "remove" THEN [store EXCEPT ![op.cls] = RemovedStore(op.cls, op.q)]
  ELSE store

----------------------------------------------------------------------------
(* Asynchronous calls.  The state S of the JavaScript side during a       *)
(* macrotask: the heap, the caches, the calls, the ready continuations,   *)
(* the store operations issued.                                           *)

TaskIds == 1..MaxTasks

Task0 ==
  [kind |-> "", pc |-> "", self |-> 0, cls |-> "", q |-> <<>>, caller |-> 0,
   parent |-> 0, top |-> FALSE, wait |-> 0, st |-> "run", res |-> <<>>,
   errk |-> "", docs |-> <<>>, doc |-> <<>>, i |-> 1, ret |-> NoRet,
   typeErr |-> FALSE, call |-> "", snap |-> <<>>, rel |-> {}, ord |-> 0,
   sub |-> {}]

Free(S) == TaskIds \ DOMAIN S.tasks

\* the k-th smallest unused task identifier
NthFree(S, k) ==
  CHOOSE x \in Free(S) : Cardinality({y \in Free(S) : y < x}) = k - 1

\* the task running now
cur(S) == Head(S.runq)
Cur(S) == S.tasks[Head(S.runq)]

\* tk extended with the new tasks ts (a sequence), under the first free ids
WithTasks(S, tk, ts) ==
  [x \in DOMAIN tk \cup {NthFree(S, k) : k \in 1..Len(ts)} |->
     IF x \in DOMAIN tk THEN tk[x]
     ELSE ts[CHOOSE k \in 1..Len(ts) : NthFree(S, k) = x]]

NewIds(S, ts) == [k \in 1..Len(ts) |-> NthFree(S, k)]

RECURSIVE TopOf(_, _)
\* the call at the root of the chain of calls that led to call t
TopOf(S, t) == IF S.tasks[t].parent = 0 THEN t ELSE TopOf(S, S.tasks[t].parent)

\* the calls nest without end: the macrotask never finishes
Overflow(S) == [S EXCEPT !.stuck = TRUE]

\* a parent that waits for Promise.all of the saves saveRelations started
Joins(P) == P.kind = "save" /\ P.pc \in {"s_ins", "s_upd"}

\* Task t settles (its promise resolves with val, or rejects): a user call
\* keeps its outcome; a call nobody awaits is dropped; a call awaited by a
\* parent hands over its outcome.  A rejected member of Promise.all rejects
\* the whole, and the parent's then-callback never runs.
SettleTasks(tk, t, ok, val, ek) ==
  LET T == tk[t]
      rest == [x \in DOMAIN tk \ {t} |-> tk[x]]
      p == T.parent
  IN IF T.top
     THEN [tk EXCEPT ![t].st = IF ok THEN "ok" ELSE "err", ![t].res = val,
                     ![t].errk = ek, ![t].pc = "end"]
     ELSE IF p = 0 THEN rest
     ELSE IF Joins(tk[p])
          THEN IF ok THEN [rest EXCEPT ![p].wait = @ - 1]
               ELSE [rest EXCEPT ![p].st = "hung"]
     ELSE [rest EXCEPT ![p].ret = [NoRet EXCEPT !.err = ~ok, !.val = val]]

SettleRunq(tk, rq, t, ok) ==
  LET T == tk[t]
      p == T.parent
  IN IF T.top \/ p = 0 THEN rq
     ELSE IF Joins(tk[p])
          THEN IF ok /\ tk[p].wait = 1 /\ tk[p].st = "run" THEN Append(rq, p) ELSE rq
     ELSE Append(rq, p)

\* the running call settles
Settle(S, ok, val, ek) ==
  [S EXCEPT !.tasks = SettleTasks(S.tasks, cur(S), ok, val, ek),
            !.runq = SettleRunq(S.tasks, Tail(S.runq), cur(S), ok)]

\* the promise of the running call never settles: a rejection it awaited was
\* thrown where nothing catches it
Hang(S) == [S EXCEPT !.tasks[cur(S)].st = "hung", !.runq = Tail(@)]

\* the running call issues a store operation and goes on at pc in the callback
Issue(S, op, q, doc, pc) ==
  [S EXCEPT !.pend = Append(@, [op |-> op, cls |-> Cur(S).cls, tid |-> cur(S),
                                q |-> q, doc |-> doc]),
            !.tasks[cur(S)].pc = pc,
            !.runq = Tail(@)]

\* the running call calls the task child and awaits it, going on at pc
Await(S, child, pc) ==
  IF Free(S) = {} THEN Overflow(S)
  ELSE [S EXCEPT !.tasks = WithTasks(S, [S.tasks EXCEPT ![cur(S)].pc = pc], <<child>>),
                 !.runq = <<NthFree(S, 1)>> \o Tail(@)]

----------------------------------------------------------------------------
(* The Identity Cache: Model._cache, an object keyed by identifier *)

\* cache[id]: 0 when the key is absent or holds null
CacheGet(S, c, id) ==
  IF PropKey(id) \in DOMAIN S.cache[c] THEN S.cache[c][PropKey(id)] ELSE 0

\* cache[id] = v
CachePut(S, c, id, v) ==
  [S.cache EXCEPT ![c] = (PropKey(id) :> v) @@ @]

----------------------------------------------------------------------------
(* save, _save and saveRelations *)

\* saveRelations without the test against the caller
TargetsOfRelUnguarded(h, o, r, except) ==
  LET v == h[o].f[r.name]
      due(m) == m # 0 /\ ~Truthy(h[m].id)
  IN IF r.options.type = ONE_TO_MANY THEN SelectSeq(v, due)
     ELSE IF due(v) THEN <<v>> ELSE <<>>

\* the instances one relation r of o makes saveRelations save:
\* relModel && relModel != except && !relModel._id
TargetsOfRel(h, o, r, except) ==
  LET v == h[o].f[r.name]
      due(m) == m # 0 /\ m # except /\ ~Truthy(h[m].id)
  IN IF r.options.type = ONE_TO_MANY THEN SelectSeq(v, due)
     ELSE IF due(v) THEN <<v>> ELSE <<>>

RECURSIVE SaveTargetsOf(_, _, _, _)
SaveTargetsOf(h, o, rs, except) ==
  IF rs = <<>> THEN <<>>
  ELSE TargetsOfRel(h, o, Head(rs), except) \o SaveTargetsOf(h, o, Tail(rs), except)

SaveTargets(h, o, types, except) ==
  SaveTargetsOf(h, o, RelsOf(h[o].cls, types), except)

\* saveRelations that leaves the back reference of the members alone
SetBackrefsNone(h, o, types, except) == h

\* relModel[rel.options.backref] = this, for the members of array relations
SetBackrefs(h, o, types, except) ==
  LET rs == RelsOf(h[o].cls, types)
      ref(m) == {k \in 1..Len(rs) :
                   /\ rs[k].options.type = ONE_TO_MANY
                   /\ m \in SeqToSet(TargetsOfRel(h, o, rs[k], except))}
  IN [m \in DOMAIN h |->
        IF ref(m) = {} THEN h[m]
        ELSE [h[m] EXCEPT !.f[rs[CHOOSE k \in ref(m) : TRUE].options.backref] = o]]

\* saveRelations that leaves out an instance whose _save is already running
SaveRelationsOnce(S, types, pc) ==
  LET T == Cur(S)
      busy(m) == \E u \in DOMAIN S.tasks :
                   S.tasks[u].kind = "save" /\ S.tasks[u].self = m /\ S.tasks[u].st = "run"
      ts == SelectSeq(SaveTargets(S.objs, T.self, types, T.caller), LAMBDA m : ~busy(m))
      kids == [k \in 1..Len(ts) |->
                 [Task0 EXCEPT !.kind = "save", !.pc = "s_rel", !.self = ts[k],
                               !.cls = S.objs[ts[k]].cls, !.caller = T.self,
                               !.parent = cur(S)]]
  IN IF Len(ts) > Cardinality(Free(S)) THEN Overflow(S)
     ELSE IF ts = <<>>
          THEN [S EXCEPT !.tasks[cur(S)].pc = pc, !.runq = Append(Tail(@), cur(S))]
     ELSE [S EXCEPT !.objs = SetBackrefs(S.objs, T.self, types, T.caller),
                    !.tasks = WithTasks(S, [S.tasks EXCEPT ![cur(S)].pc = pc,
                                                       ![cur(S)].wait = Len(ts),
                                                       ![TopOf(S, cur(S))].sub =
                                                          @ \cup SeqToSet(ts)], kids),
                    !.runq = NewIds(S, kids) \o Tail(@)]

\* this.saveRelations(types, caller).then(...): every relModel._save(this)
\* starts at once, in order; the then-callback (at pc) runs when all of them
\* have resolved
SaveRelations(S, types, pc) ==
  LET T == Cur(S)
      ts == SaveTargets(S.objs, T.self, types, T.caller)
      kids == [k \in 1..Len(ts) |->
                 [Task0 EXCEPT !.kind = "save", !.pc = "s_rel", !.self = ts[k],
                               !.cls = S.objs[ts[k]].cls, !.caller = T.self,
                               !.parent = cur(S)]]
  IN IF Len(ts) > Cardinality(Free(S)) THEN Overflow(S)
     ELSE IF ts = <<>>
          THEN [S EXCEPT !.tasks[cur(S)].pc = pc, !.runq = Append(Tail(@), cur(S))]
     ELSE [S EXCEPT !.objs = SetBackrefs(S.objs, T.self, types, T.caller),
                    !.tasks = WithTasks(S, [S.tasks EXCEPT ![cur(S)].pc = pc,
                                                       ![cur(S)].wait = Len(ts),
                                                       ![TopOf(S, cur(S))].sub =
                                                          @ \cup SeqToSet(ts)], kids),
                    !.runq = NewIds(S, kids) \o Tail(@)]

ToSave == {ONE_TO_ONE, MANY_TO_ONE}

\* _save that starts the saves of the related instances and does not wait
\* for them before it inserts
SaveRelatedNoWait(S) ==
  LET T == Cur(S)
      ts == SaveTargets(S.objs, T.self, ToSave, T.caller)
      kids == [k \in 1..Len(ts) |->
                 [Task0 EXCEPT !.kind = "save", !.pc = "s_rel", !.self = ts[k],
                               !.cls = S.objs[ts[k]].cls, !.caller = T.self]]
  IN IF Len(ts) > Cardinality(Free(S)) THEN Overflow(S)
     ELSE [S EXCEPT !.tasks = WithTasks(S, [S.tasks EXCEPT ![cur(S)].pc = "s_ins",
                                                       ![TopOf(S, cur(S))].sub =
                                                          @ \cup SeqToSet(ts)], kids),
                    !.runq = NewIds(S, kids) \o Append(Tail(@), cur(S))]

\* _save: this.saveRelations(toSave, caller).then(...)
SaveRelated(S) == SaveRelations(S, ToSave, "s_ins")

\* this.db().insert(this.getDBDocument(), callback)
SaveInsert(S) == Issue(S, "insert", <<>>, GetDBDocument(S.objs, Cur(S).self), "s_cb")

\* a callback of insert that marks the instance saved whatever the outcome
SaveInsertedAnyway(S) ==
  LET T == Cur(S)
  IN IF T.ret.err
     THEN Settle([S EXCEPT !.objs[T.self].id = "g0"], FALSE, <<>>, "store")
     ELSE SaveRelations([S EXCEPT !.objs[T.self].id = T.ret.docs[1]["_id"],
                                  !.tasks[cur(S)].doc = T.ret.docs[1]],
                        {ONE_TO_MANY}, "s_upd")

\* the callback of insert
SaveInserted(S) ==
  LET T == Cur(S)
  IN IF T.ret.err THEN Settle(S, FALSE, <<>>, "store")
     ELSE SaveRelations([S EXCEPT !.objs[T.self].id = T.ret.docs[1]["_id"],
                                  !.tasks[cur(S)].doc = T.ret.docs[1]],
                        {ONE_TO_MANY}, "s_upd")

HydrateTask(S, o, doc) ==
  [Task0 EXCEPT !.kind = "hydrate", !.pc = "h_start", !.self = o,
                !.cls = S.objs[o].cls, !.doc = doc, !.parent = cur(S)]

\* return this.updateFromDocument(newDoc)
SaveRehydrate(S) == Await(S, HydrateTask(S, Cur(S).self, Cur(S).doc), "s_done")

\* .then(() => resolve(this)): there is no handler for a rejection
SaveResolve(S) ==
  IF Cur(S).ret.err THEN Hang(S) ELSE Settle(S, TRUE, <<Cur(S).self>>, "")

----------------------------------------------------------------------------
(* update *)

\* update without the check of this._id
UpdateStartUnchecked(S) ==
  LET T == Cur(S)
  IN Issue(S, "update", IdQuery(S.objs[T.self].id), GetDBDocument(S.objs, T.self), "u_cb")

UpdateStart(S) ==
  LET T == Cur(S)
  IN IF ~Truthy(S.objs[T.self].id) THEN Settle(S, FALSE, <<>>, "usage")
     ELSE Issue(S, "update", IdQuery(S.objs[T.self].id),
                GetDBDocument(S.objs, T.self), "u_cb")

UpdateDone(S) ==
  IF Cur(S).ret.err THEN Settle(S, FALSE, <<>>, "store")
  ELSE Settle(S, TRUE, <<Cur(S).self>>, "")

----------------------------------------------------------------------------
(* updateFromDocument *)

\* updateFromDocument that does not put the instance in the cache
HydratedCacheNone(S, o, doc) == S.cache

\* updateFromDocument that takes the null a findByID left for an entry
HydratedCacheIfAbsent(S, o, doc) ==
  IF PropKey(doc["_id"]) \notin DOMAIN S.cache[S.objs[o].cls]
  THEN CachePut(S, S.objs[o].cls, doc["_id"], o)
  ELSE S.cache

\* this._id = newDocument['_id']; if (!cache[_id]) cache[_id] = this
HydratedCache(S, o, doc) ==
  IF CacheGet(S, S.objs[o].cls, doc["_id"]) = 0
  THEN CachePut(S, S.objs[o].cls, doc["_id"], o)
  ELSE S.cache

\* the primary key and the plain columns are taken from the document
HydratedFields(h, o, doc) ==
  LET c == h[o].cls
  IN [k \in DOMAIN h[o].f |->
        IF k = meta[c].primaryKey THEN doc["_id"]
        ELSE IF k \in SeqToSet(meta[c].keys)
             THEN IF k \in DOMAIN doc THEN doc[k] ELSE UNDEF
        ELSE h[o].f[k]]

HydrateStart(S) ==
  LET T == Cur(S)
  IN [S EXCEPT !.cache = HydratedCache(S, T.self, T.doc),
               !.objs[T.self].id = T.doc["_id"],
               !.objs[T.self].f = HydratedFields(S.objs, T.self, T.doc),
               !.tasks[cur(S)].pc = "h_rel",
               !.tasks[cur(S)].i = 1]

FindTask(S, c, q) ==
  [Task0 EXCEPT !.kind = "find", !.pc = "f_start", !.cls = c, !.q = q,
                !.parent = cur(S)]

FindByIDTask(S, c, id) ==
  [Task0 EXCEPT !.kind = "findByID", !.pc = "b_start", !.cls = c,
                !.q = IdQuery(id), !.parent = cur(S)]

\* for (let rel of metadata.relations): the relation at position i
HydrateRelation(S) ==
  LET T == Cur(S)
      rs == meta[T.cls].relations
      rel == rs[T.i]
  IN IF T.i > Len(rs) THEN Settle(S, TRUE, <<>>, "")
     ELSE IF rel.options.type = ONE_TO_MANY
          THEN Await(S, FindTask(S, rel.options.dest,
                                 RelPath(PropKey(rel.options.backref)) :> S.objs[T.self].id),
                     "h_set")
     ELSE IF RelPath(rel.name) \in DOMAIN T.doc
          THEN Await(S, FindByIDTask(S, rel.options.dest, T.doc[RelPath(rel.name)]),
                     "h_set")
     ELSE [S EXCEPT !.tasks[cur(S)].i = @ + 1]

\* this[rel.name] = await ...: a rejection is thrown out of updateFromDocument
HydrateSet(S) ==
  LET T == Cur(S)
      rel == meta[T.cls].relations[T.i]
  IN IF T.ret.err THEN Settle(S, FALSE, <<>>, "store")
     ELSE [S EXCEPT !.objs[T.self].f[rel.name] =
                       IF rel.options.type = ONE_TO_MANY THEN T.ret.val
                       ELSE T.ret.val[1],
                    !.tasks[cur(S)].i = @ + 1,
                    !.tasks[cur(S)].pc = "h_rel"]

----------------------------------------------------------------------------
(* find, fromDocument, findByID *)

\* find that hands the query to the store as it is
StoreQueryAsGiven(c, q) == q

\* a query on the primary key column becomes a query on _id
StoreQuery(c, q) ==
  LET pk == meta[c].primaryKey
  IN IF pk # UNDEF /\ pk \in DOMAIN q
     THEN ("_id" :> q[pk]) @@ [p \in DOMAIN q \ {pk, "_id"} |-> q[p]]
     ELSE q

FindStart(S) == Issue(S, "find", StoreQuery(Cur(S).cls, Cur(S).q), <<>>, "f_cb")

\* the callback of find: reject(error), or the loop over the documents
FindFound(S) ==
  IF Cur(S).ret.err THEN Settle(S, FALSE, <<>>, "store")
  ELSE [S EXCEPT !.tasks[cur(S)].docs = Cur(S).ret.docs,
                 !.tasks[cur(S)].res = <<>>,
                 !.tasks[cur(S)].i = 1,
                 !.tasks[cur(S)].pc = "f_loop"]

\* models.push(await this.fromDocument(d)); fromDocument: let obj = new this();
\* await obj.updateFromDocument(document)
FromDocument(S) ==
  LET T == Cur(S)
      obj == Len(S.objs) + 1
      S1 == [S EXCEPT !.objs = Append(@, NewInstance(T.cls)),
                      !.tasks[cur(S)].self = obj]
  IN IF T.i > Len(T.docs) THEN Settle(S, TRUE, T.res, "")
     ELSE Await(S1, HydrateTask(S1, obj, T.docs[T.i]), "f_next")

\* fromDocument's promise is resolved after the await: when updateFromDocument
\* throws, nothing settles it
FindNext(S) ==
  IF Cur(S).ret.err THEN Hang(S)
  ELSE [S EXCEPT !.tasks[cur(S)].res = Append(@, Cur(S).self),
                 !.tasks[cur(S)].i = @ + 1,
                 !.tasks[cur(S)].pc = "f_loop"]

\* findByID that answers a cached identifier with the empty result
FindByIDStartDropsHit(S) ==
  LET T == Cur(S)
  IN IF CacheGet(S, T.cls, T.q["_id"]) # 0
     THEN Settle(S, TRUE, <<0>>, "")
     ELSE Await(S, FindTask(S, T.cls, T.q), "b_set")

\* if (cache[id]) return cache[id]; const models = await this.find({_id: id})
FindByIDStart(S) ==
  LET T == Cur(S)
  IN IF CacheGet(S, T.cls, T.q["_id"]) # 0
     THEN Settle(S, TRUE, <<CacheGet(S, T.cls, T.q["_id"])>>, "")
     ELSE Await(S, FindTask(S, T.cls, T.q), "b_set")

\* models.length ? models[0] : null
Found(models) == IF models # <<>> THEN models[1] ELSE 0

\* findByID that throws when nothing was found
FindByIDSetThrows(S) ==
  LET T == Cur(S)
  IN IF T.ret.err \/ T.ret.val = <<>> THEN Settle(S, FALSE, <<>>, "store")
     ELSE Settle([S EXCEPT !.cache = CachePut(S, T.cls, T.q["_id"], Found(T.ret.val))],
                 TRUE, <<Found(T.ret.val)>>, "")

\* cache[id] = models.length ? models[0] : null; return cache[id]
FindByIDSet(S) ==
  LET T == Cur(S)
  IN IF T.ret.err THEN Settle(S, FALSE, <<>>, "store")
     ELSE Settle([S EXCEPT !.cache = CachePut(S, T.cls, T.q["_id"], Found(T.ret.val))],
                 TRUE, <<Found(T.ret.val)>>, "")

----------------------------------------------------------------------------
(* delete, _deleteRelation, _delete *)

\* delete that takes every relation for a cascade relation
CascadeRelsAll(c) == meta[c].relations

\* the relations whose cascade option is set
CascadeRels(c) ==
  LET rs == meta[c].relations
  IN Filter(rs, {rs[k] : k \in {j \in 1..Len(rs) : rs[j].options.cascade}})

RECURSIVE CascadeTargetsOf(_, _, _)
\* the instances _deleteRelation calls delete() on
CascadeTargetsOf(h, o, rs) ==
  IF rs = <<>> THEN <<>>
  ELSE LET v == h[o].f[Head(rs).name]
       IN (IF Head(rs).options.type = ONE_TO_MANY THEN v
           ELSE IF v # 0 THEN <<v>> ELSE <<>>)
          \o CascadeTargetsOf(h, o, Tail(rs))

CascadeTargets(h, o) == CascadeTargetsOf(h, o, CascadeRels(h[o].cls))

\* (<Model>this[name]).delete() on an empty relation throws a TypeError
CascadeThrows(h, o) ==
  LET rs == CascadeRels(h[o].cls)
  IN \E k \in 1..Len(rs) :
       rs[k].options.type # ONE_TO_MANY /\ h[o].f[rs[k].name] = 0

DeleteTasks(S, ts) ==
  [k \in 1..Len(ts) |->
     [Task0 EXCEPT !.kind = "delete", !.pc = "d_start", !.self = ts[k],
                   !.cls = S.objs[ts[k]].cls]]

\* delete without the check of this._id
DeleteStartUnchecked(S) ==
  LET T == Cur(S)
      ts == CascadeTargets(S.objs, T.self)
      kids == DeleteTasks(S, ts)
  IN IF Len(ts) > Cardinality(Free(S)) THEN Overflow(S)
     ELSE [S EXCEPT !.tasks = WithTasks(S,
                       [S.tasks EXCEPT ![cur(S)].pc = "d_own",
                                       ![cur(S)].typeErr = CascadeThrows(S.objs, T.self)],
                       kids),
                    !.runq = NewIds(S, kids) \o @]

\* delete(): false without _id; else every cascade relation's instances get
\* delete() called, nobody awaiting them, and then this._delete() runs
DeleteStart(S) ==
  LET T == Cur(S)
      ts == CascadeTargets(S.objs, T.self)
      kids == DeleteTasks(S, ts)
  IN IF ~Truthy(S.objs[T.self].id) THEN Settle(S, TRUE, <<FALSE>>, "")
     ELSE IF Len(ts) > Cardinality(Free(S)) THEN Overflow(S)
     ELSE [S EXCEPT !.tasks = WithTasks(S,
                       [S.tasks EXCEPT ![cur(S)].pc = "d_own",
                                       ![cur(S)].typeErr = CascadeThrows(S.objs, T.self),
                                       ![cur(S)].rel = {<<S.objs[ts[k]].cls, S.objs[ts[k]].id>> :
                                                          k \in 1..Len(ts)}],
                       kids),
                    !.runq = NewIds(S, kids) \o @]

\* this._delete(): db.remove({ _id: this._id }).  Promise.all rejects at once
\* when a _deleteRelation threw
DeleteOwn(S) ==
  LET T == Cur(S)
      S1 == Issue(S, "remove", IdQuery(S.objs[T.self].id), <<>>, "d_cb")
  IN IF T.typeErr
     THEN [S1 EXCEPT !.tasks[cur(S)].st = "err", !.tasks[cur(S)].errk = "type"]
     ELSE S1

\* a delete that forgets the _id of the instance once its document is removed
DeleteDoneClearsId(S) ==
  IF Cur(S).ret.err THEN Settle(S, FALSE, <<>>, "store")
  ELSE Settle([S EXCEPT !.objs[Cur(S).self].id = UNDEF], TRUE, <<Cur(S).ret.n > 0>>, "")

\* the callback of remove: resolve(numRemoved > 0)
DeleteDone(S) ==
  IF Cur(S).ret.err THEN Settle(S, FALSE, <<>>, "store")
  ELSE Settle(S, TRUE, <<Cur(S).ret.n > 0>>, "")

----------------------------------------------------------------------------
(* One macrotask *)

\* the continuation at the head of the ready queue runs
Step(S) ==
  LET pc == Cur(S).pc
  IN CASE pc = "s_rel"   -> SaveRelated(S)
       [] pc = "s_ins"   -> SaveInsert(S)
       [] pc = "s_cb"    -> SaveInserted(S)
       [] pc = "s_upd"   -> SaveRehydrate(S)
       [] pc = "s_done"  -> SaveResolve(S)
       [] pc = "u_start" -> UpdateStart(S)
       [] pc = "u_cb"    -> UpdateDone(S)
       [] pc = "h_start" -> HydrateStart(S)
       [] pc = "h_rel"   -> HydrateRelation(S)
       [] pc = "h_set"   -> HydrateSet(S)
       [] pc = "f_start" -> FindStart(S)
       [] pc = "f_cb"    -> FindFound(S)
       [] pc = "f_loop"  -> FromDocument(S)
       [] pc = "f_next"  -> FindNext(S)
       [] pc = "b_start" -> FindByIDStart(S)
       [] pc = "b_set"   -> FindByIDSet(S)
       [] pc = "d_start" -> DeleteStart(S)
       [] pc = "d_own"   -> DeleteOwn(S)
       [] pc = "d_cb"    -> DeleteDone(S)

RECURSIVE Run(_)
\* until nothing is ready (or the calls nest without end)
Run(S) == IF S.stuck \/ S.runq = <<>> THEN S ELSE Run(Step(S))

\* the JavaScript side before a macrotask whose first continuation is t
Machine(tk, t, pd) ==
  [objs |-> objs, cache |-> cache, tasks |-> tk, runq |-> <<t>>, pend |-> pd,
   stuck |-> FALSE]

\* the macrotask runs to its end
RunFrom(S) ==
  \E S1 \in {Run(S)} :
    /\ objs' = S1.objs
    /\ cache' = S1.cache
    /\ tasks' = S1.tasks
    /\ pend' = S1.pend
    /\ stuck' = S1.stuck

----------------------------------------------------------------------------
(* The object graphs user code builds before it calls the mapping core *)

\* an instance user code constructed and filled in
UserObj(c, fields) ==
  [NewInstance(c) EXCEPT !.by = "user",
                         !.f = [k \in DOMAIN @ |-> IF k \in DOMAIN fields THEN fields[k] ELSE @[k]]]

mkT(name) == UserObj("T", "name" :> name)
mkR(title) == UserObj("R", "title" :> title)
mkN(val, next, link) == UserObj("N", ("val" :> val) @@ ("next" :> next) @@ ("link" :> link))
mkO(kids) == UserObj("O", "kids" :> kids)
mkK(owner) == UserObj("K", "owner" :> owner)

Graphs ==
  [names   |-> <<mkT("Alice"), mkT("Bob")>>,
   plain   |-> <<mkR("v1")>>,
   cycle   |-> <<mkN("v1", 2, 0), mkN("v2", 1, 0)>>,
   ring    |-> <<mkN("v1", 2, 0), mkN("v2", 3, 0), mkN("v1", 1, 0)>>,
   cascade |-> <<mkN("v1", 2, 3), mkN("v2", 0, 0), mkT("Alice")>>,
   child   |-> <<mkO(<<>>), mkK(1)>>,
   kids    |-> <<mkO(<<2, 3>>), mkK(0), mkK(0)>>,
   stale   |-> <<mkN("v2", 0, 0)>>,
   twins   |-> <<mkO(<<>>), mkK(1), mkK(1)>>,
   family  |-> <<mkO(<<3>>), mkK(1), mkK(0)>>,
   unset   |-> <<mkN("v1", 0, 0), mkT(SENTINEL)>>]

\* the documents an earlier run of the program left in the file of N: the
\* relation link of the first names a T whose document was deleted since, and
\* the two name each other in next
LeftBehind ==
  ("_id" :> "p1") @@ ("val" :> "v1")
    @@ (RelPath("next") :> "p2") @@ (RelPath("link") :> "Alice")

LeftBehindToo ==
  ("_id" :> "p2") @@ ("val" :> "v2")
    @@ (RelPath("next") :> "p1") @@ (RelPath("link") :> SENTINEL)

\* new DataStore({filename, autoload: true}): what the files hold at the start
Files(g) ==
  [c \in Classes |->
     IF g = "stale" /\ c = "N" THEN <<LeftBehind, LeftBehindToo>> ELSE <<>>]

\* the identifiers earlier runs stored documents under
StoredBefore(g) ==
  IF g = "stale" THEN {<<"N", "p1">>, <<"N", "p2">>, <<"T", "Alice">>} ELSE {}

\* an identifier nothing is ever stored under
AbsentId == "Carol"

Init ==
  /\ meta = DeclaredMeta
  /\ scen \in DOMAIN Graphs
  /\ objs = Graphs[scen]
  /\ cache = [c \in Classes |-> <<>>]
  /\ store = Files(scen)
  /\ pend = <<>>
  /\ tasks = <<>>
  /\ stuck = FALSE
  /\ nextId = 0
  /\ ops = 0
  /\ fails = <<>>
  /\ everStored = StoredBefore(scen)
  /\ decl = Declared

----------------------------------------------------------------------------
(* User calls *)

\* the calls user code made itself
TopTasks == {t \in DOMAIN tasks : tasks[t].top}

Loads == {t \in TopTasks : tasks[t].kind \in {"find", "findByID"} /\ tasks[t].st = "ok"}

\* the instances user code holds: those it built and those its loads returned
Held ==
  {o \in DOMAIN objs : objs[o].by = "user"}
  \cup UNION {SeqToSet(tasks[t].res) \ {0} : t \in Loads}

UserClasses == {objs[o].cls : o \in DOMAIN objs}

\* the identifiers user code knows
KnownIds(c) ==
  {objs[o].id : o \in {h \in Held : objs[h].cls = c /\ Truthy(objs[h].id)}}
  \cup {objs[o].f[meta[c].primaryKey] :
          o \in {h \in Held : objs[h].cls = c /\ meta[c].primaryKey # UNDEF}}

\* find(data): everything, or a predicate on the primary key column
Queries(c) ==
  {<<>>} \cup (IF meta[c].primaryKey = UNDEF THEN {}
               ELSE {meta[c].primaryKey :> v : v \in KnownIds(c)})

\* user code makes its calls one after the other, each when the store is quiet
CanCall == ops < MaxOps /\ ~stuck /\ pend = <<>> /\ Free([tasks |-> tasks]) # {}

\* an asynchronous method is called: it runs up to its first wait; max bounds
\* the number of things user code does
BeginWithin(task, max) ==
  /\ ops < max /\ ~stuck /\ Free([tasks |-> tasks]) # {}
  /\ LET t == NthFree([tasks |-> tasks], 1)
     IN RunFrom(Machine((t :> [task EXCEPT !.top = TRUE, !.ord = ops + 1]) @@ tasks,
                        t, pend))
  /\ ops' = ops + 1
  /\ UNCHANGED <<meta, scen, store, nextId, fails, everStored, decl>>

Begin(task) == BeginWithin(task, MaxOps)

\* user code that awaits each call before it makes the next
Start(task) == CanCall /\ Begin(task)

\* the plain columns and their values at the call
ColsOf(o) == [k \in SeqToSet(meta[objs[o].cls].keys) |-> objs[o].f[k]]

\* save that inserts whether or not the instance has an _id
CallSaveAlwaysInsert(o) ==
  Start([Task0 EXCEPT !.kind = "save", !.pc = "s_rel", !.self = o,
                      !.cls = objs[o].cls, !.call = "save", !.snap = ColsOf(o)])

\* save(): if (this._id) return this.update(); return this._save()
SaveCall(o) ==
  IF Truthy(objs[o].id)
  THEN [Task0 EXCEPT !.kind = "update", !.pc = "u_start", !.self = o,
                     !.cls = objs[o].cls, !.call = "save", !.snap = ColsOf(o)]
  ELSE [Task0 EXCEPT !.kind = "save", !.pc = "s_rel", !.self = o,
                     !.cls = objs[o].cls, !.call = "save", !.snap = ColsOf(o)]

CallSave(o) == Start(SaveCall(o))

CallUpdate(o) ==
  Start([Task0 EXCEPT !.kind = "update", !.pc = "u_start", !.self = o,
                      !.cls = objs[o].cls, !.call = "update", !.snap = ColsOf(o)])

DeleteCall(o) ==
  [Task0 EXCEPT !.kind = "delete", !.pc = "d_start", !.self = o,
                !.cls = objs[o].cls, !.call = "delete"]

CallDelete(o) == Start(DeleteCall(o))

CallFindByID(c, id) ==
  Start([Task0 EXCEPT !.kind = "findByID", !.pc = "b_start", !.cls = c,
                      !.q = IdQuery(id), !.call = "findByID"])

\* find(data), and all() which is find({})
FindCall(c, q) ==
  [Task0 EXCEPT !.kind = "find", !.pc = "f_start", !.cls = c, !.q = q, !.call = "find"]

CallFind(c, q) == Start(FindCall(c, q))

\* user code assigns a plain column of an instance it holds
Assign(o, k, v) ==
  /\ ops < MaxOps /\ ~stuck /\ pend = <<>>
  /\ objs[o].f[k] # v
  /\ objs' = [objs EXCEPT ![o].f[k] = v, ![o].asg = @ + 1]
  /\ ops' = ops + 1
  /\ UNCHANGED <<meta, scen, cache, store, pend, tasks, stuck, nextId, fails, everStored,
                 decl>>

----------------------------------------------------------------------------
(* The store runs the oldest operation of a collection and calls back *)

StoreDone(k, fail) ==
  LET op == pend[k]
      r == StoreResult(op, fail)
      rest == SubSeq(pend, 1, k-1) \o SubSeq(pend, k+1, Len(pend))
      T == tasks[op.tid]
  IN /\ ~stuck
     /\ OldestOfClass(k)
     /\ fail => Len(fails) < MaxFail
     /\ store' = StoreAfter(op, r)
     /\ nextId' = IF op.op = "insert" /\ ~r.err /\ ~HasId(op.doc) THEN nextId + 1 ELSE nextId
     /\ everStored' = IF op.op = "insert" /\ ~r.err
                      THEN everStored \cup {<<op.cls, r.docs[1]["_id"]>>}
                      ELSE everStored
     /\ fails' = IF r.err THEN Append(fails, op.op) ELSE fails
     /\ IF T.st = "run"
        THEN RunFrom(Machine([tasks EXCEPT ![op.tid].ret = r], op.tid, rest))
        ELSE /\ pend' = rest
             /\ tasks' = IF T.top THEN tasks
                         ELSE [x \in DOMAIN tasks \ {op.tid} |-> tasks[x]]
             /\ UNCHANGED <<objs, cache, stuck>>
     /\ UNCHANGED <<meta, scen, ops, decl>>

Next ==
  \/ \E o \in Held : CallSave(o)
  \/ \E o \in Held : CallUpdate(o)
  \/ \E o \in Held : CallDelete(o)
  \/ \E c \in UserClasses : \E id \in KnownIds(c) \cup {AbsentId} : CallFindByID(c, id)
  \/ \E c \in UserClasses : \E q \in Queries(c) : CallFind(c, q)
  \/ \E o \in Held : \E k \in SeqToSet(meta[objs[o].cls].keys) : \E v \in Values : Assign(o, k, v)
  \/ \E k \in 1..Len(pend) : \E fail \in BOOLEAN : StoreDone(k, fail)

Spec == Init /\ [][Next]_vars

\* nothing is in flight
Idle == pend = <<>>

\* user code that calls save on one instance after the other without awaiting
\* the promises, as in Promise.all([a.save(), b.save()])
SaveNoAwait(o) ==
  /\ ~Truthy(objs[o].id)
  /\ Begin([Task0 EXCEPT !.kind = "save", !.pc = "s_rel", !.self = o,
                         !.cls = objs[o].cls, !.call = "save", !.snap = ColsOf(o)])

InitConc == Init /\ scen = "twins"

NextConc ==
  \/ \E o \in Held : SaveNoAwait(o)
  \/ \E k \in 1..Len(pend) : \E fail \in BOOLEAN : StoreDone(k, fail)

SpecConc == InitConc /\ [][NextConc]_vars

----------------------------------------------------------------------------
(* User code that also assigns the primary-key field of the instances it   *)
(* holds, with one more step than MaxOps allows                            *)

MaxKeyOps == 4

Names == {"Alice", "Bob"}

\* a call made when the store is quiet, within MaxKeyOps
Within(task) == pend = <<>> /\ BeginWithin(task, MaxKeyOps)

SaveKey(o) == Within(SaveCall(o))

DeleteKey(o) == Within(DeleteCall(o))

FindKey(c) == Within(FindCall(c, <<>>))

\* t.name = v
AssignKey(o, v) ==
  /\ ops < MaxKeyOps /\ ~stuck /\ pend = <<>>
  /\ meta[objs[o].cls].primaryKey # UNDEF
  /\ objs[o].f[meta[objs[o].cls].primaryKey] # v
  /\ objs' = [objs EXCEPT ![o].f[meta[objs[o].cls].primaryKey] = v, ![o].asg = @ + 1]
  /\ ops' = ops + 1
  /\ UNCHANGED <<meta, scen, cache, store, pend, tasks, stuck, nextId, fails, everStored,
                 decl>>

InitKey == Init /\ scen = "names"

NextKey ==
  \/ \E o \in Held : SaveKey(o)
  \/ \E o \in Held : DeleteKey(o)
  \/ \E c \in UserClasses : FindKey(c)
  \/ \E o \in Held : \E v \in Names : AssignKey(o, v)
  \/ \E k \in 1..Len(pend) : \E fail \in BOOLEAN : StoreDone(k, fail)

SpecKey == InitKey /\ [][NextKey]_vars

----------------------------------------------------------------------------
(* A program whose class N has a second relation to N, so that one         *)
(* instance can be reached through two fields or along two paths           *)

\*   class N { ... @Relation({type: MANY_TO_ONE, dest: N}) twin }
SharingDeclarations ==
  Declarations \o << <<"N", "twin", RelationOptions(MANY_TO_ONE, "N", FALSE, UNDEF)>> >>

SharingMeta == Declare([c \in Classes |-> EmptyMetadata], SharingDeclarations)

mkS(val, next, twin) ==
  UserObj("N", ("val" :> val) @@ ("next" :> next) @@ ("twin" :> twin))

\* both: the two fields of the first hold the second; diamond: the first
\* reaches the fourth through the second and through the third
Sharing ==
  [both    |-> <<mkS("v1", 2, 2), mkS("v2", 0, 0)>>,
   diamond |-> <<mkS("v1", 2, 3), mkS("v2", 4, 0), mkS("v2", 4, 0), mkS("v1", 0, 0)>>]

InitSharing ==
  /\ meta = SharingMeta
  /\ scen \in DOMAIN Sharing
  /\ objs = Sharing[scen]
  /\ cache = [c \in Classes |-> <<>>]
  /\ store = [c \in Classes |-> <<>>]
  /\ pend = <<>>
  /\ tasks = <<>>
  /\ stuck = FALSE
  /\ nextId = 0
  /\ ops = 0
  /\ fails = <<>>
  /\ everStored = {}
  /\ decl = [k \in DOMAIN SharingDeclarations |->
               [target |-> SharingDeclarations[k][1], key |-> SharingDeclarations[k][2],
                options |-> SharingDeclarations[k][3], err |-> ""]]

NextSharing ==
  \/ \E o \in Held : CallSave(o)
  \/ \E c \in UserClasses : CallFind(c, <<>>)
  \/ \E k \in 1..Len(pend) : \E fail \in BOOLEAN : StoreDone(k, fail)

SpecSharing == InitSharing /\ [][NextSharing]_vars

----------------------------------------------------------------------------
(* The decorators, applied while the classes of a program are defined *)

\* what a decorator can be applied on: the prototype of a class that extends
\* Model, or of one that does not
NotAModel == "Object"
Targets   == {"O", "K", NotAModel}

\* target instanceof Model, options.dest.prototype instanceof Model
IsModel(c) == c \in Classes

\* the member names a decorator is applied on
Keys == {"a", "owner", "_x"}

\* key.startsWith('_'), over the names of the model
StartsWithUnderscore(key) == key \in {"_x", "_id", "_rel"}

\* the options of @Relation: every type and destination; a ONE_TO_MANY
\* relation names its back reference
Relations ==
  {RelationOptions(type, dest, FALSE, UNDEF) :
     type \in {ONE_TO_ONE, MANY_TO_ONE}, dest \in Targets}
  \cup {RelationOptions(ONE_TO_MANY, dest, FALSE, backref) :
          dest \in Targets, backref \in {"owner", "_x"}}

\* addColumn that checks nothing
AddColumnErrorNone(target, key) == ""

\* addColumn: the two throws before _addColumn is called
AddColumnError(target, key) ==
  IF ~IsModel(target) THEN "Column must be applied on a class that inherits Model"
  ELSE IF StartsWithUnderscore(key)
       THEN "Column names shouldn't start with _ as it is reserved for internal use"
  ELSE ""

\* Relation: the destination is checked first
RelationError(target, key, options) ==
  IF ~IsModel(options.relation.dest)
  THEN "Relation must be applied on a member that inherits Model"
  ELSE AddColumnError(target, key)

\* the decorator is applied: it throws, or it calls target.constructor._addColumn
Decorate(target, key, options, err) ==
  /\ Len(decl) < MaxDecl
  /\ meta' = IF err = "" THEN AddColumn(meta, target, key, options) ELSE meta
  /\ decl' = Append(decl, [target |-> target, key |-> key, options |-> options,
                           err |-> err])
  /\ UNCHANGED <<objs, scen, cache, store, pend, tasks, stuck, nextId, ops, fails,
                 everStored>>

Column(target, key) ==
  Decorate(target, key, ColumnOptions, AddColumnError(target, key))

PrimaryColumn(target, key) ==
  Decorate(target, key, PrimaryOptions, AddColumnError(target, key))

Relation(options, target, key) ==
  Decorate(target, key, options, RelationError(target, key, options))

\* no class has declared anything and nothing has run yet
InitSchema ==
  /\ meta = [c \in Classes |-> EmptyMetadata]
  /\ decl = <<>>
  /\ scen = "schema"
  /\ objs = <<>>
  /\ cache = [c \in Classes |-> <<>>]
  /\ store = Files(scen)
  /\ pend = <<>>
  /\ tasks = <<>>
  /\ stuck = FALSE
  /\ nextId = 0
  /\ ops = 0
  /\ fails = <<>>
  /\ everStored = StoredBefore(scen)

NextSchema ==
  \/ \E target \in Targets : \E key \in Keys : Column(target, key)
  \/ \E target \in Targets : \E key \in Keys : PrimaryColumn(target, key)
  \/ \E options \in Relations : \E target \in Targets : \E key \in Keys :
       Relation(options, target, key)

SpecSchema == InitSchema /\ [][NextSchema]_vars

----------------------------------------------------------------------------
(* Properties *)

\* the identifiers collection c holds a document for
StoredIds(c) == {store[c][k]["_id"] : k \in 1..Len(store[c])}

\* the instances a finished load handed to user code
Results(t) == SeqToSet(tasks[t].res) \ {0}

\* the call t is the latest thing user code did
Latest(t) == tasks[t].ord = ops

FindByIDs == {t \in Loads : tasks[t].kind = "findByID"}

\* C1: every load of one identifier of one entity type, through find, all or
\* findByID, yields the same instance: two instances that loads returned and
\* that have the same class and the same _id are one instance.
C1_OneInstancePerId ==
  \A t1 \in Loads : \A t2 \in Loads :
    \A a \in Results(t1) : \A b \in Results(t2) :
      (objs[a].cls = objs[b].cls /\ objs[a].id = objs[b].id) => a = b

\* C2: when a store insert failed during a save (the instance's own insert or
\* the insert of a related instance), then, once nothing is in flight any
\* more, the save call has completed with the store's error: it has neither
\* succeeded nor stayed pending.
C2_InsertFailureReported ==
  (Idle /\ \E k \in 1..Len(fails) : fails[k] = "insert")
  => \E t \in TopTasks :
       tasks[t].kind = "save" /\ tasks[t].st = "err" /\ tasks[t].errk = "store"

\* C3: two unsaved instances that hold ONE_TO_ONE relations to each other are
\* saved and then loaded from either end: the instance reached through the
\* relation of the one is the very instance loaded for the other.
C3_CycleReload ==
  (scen = "cycle" /\ fails = <<>>)
  => \A ta \in FindByIDs : \A tb \in FindByIDs :
       (/\ Truthy(objs[1].id) /\ tasks[ta].q["_id"] = objs[1].id
        /\ Truthy(objs[2].id) /\ tasks[tb].q["_id"] = objs[2].id
        /\ tasks[ta].res # <<0>> /\ tasks[tb].res # <<0>>)
       => /\ objs[tasks[ta].res[1]].f["next"] = tasks[tb].res[1]
          /\ objs[tasks[tb].res[1]].f["next"] = tasks[ta].res[1]

\* the delete calls of user code that resolved true, seen when nothing is in
\* flight and no store operation failed
Deleted ==
  {t \in TopTasks : /\ tasks[t].kind = "delete" /\ tasks[t].st = "ok"
                    /\ tasks[t].res = <<TRUE>> /\ Idle /\ fails = <<>>}

\* the ONE_TO_ONE and MANY_TO_ONE relations of o that hold a saved instance
SavedRelations(o) ==
  LET rs == RelsOf(objs[o].cls, SingleTypes)
  IN {rs[k] : k \in {j \in 1..Len(rs) :
                       /\ objs[o].f[rs[j].name] # 0
                       /\ Truthy(objs[objs[o].f[rs[j].name]].id)}}

\* user code itself deleted an instance of class c
DeletedByUser(c) == \E t \in TopTasks : tasks[t].kind = "delete" /\ tasks[t].cls = c

\* C4: after delete(O) on a saved O that has a ONE_TO_ONE relation to a saved
\* R, O's document is absent from the store; R's document is absent too when
\* the relation is cascade-flagged, and is still there when it is not (unless
\* user code deleted an instance of R's class itself).
C4_CascadeDelete ==
  \A t \in Deleted :
    /\ objs[tasks[t].self].id \notin StoredIds(tasks[t].cls)
    /\ \A r \in SavedRelations(tasks[t].self) :
         LET rid == objs[objs[tasks[t].self].f[r.name]].id
         IN IF r.options.cascade
            THEN rid \notin StoredIds(r.options.dest)
            ELSE DeletedByUser(r.options.dest) \/ rid \in StoredIds(r.options.dest)

\* a delete resolved for an instance with a cascade relation and another
\* relation, both holding saved instances
C4_Witness ==
  \E t \in Deleted :
    /\ \E r \in SavedRelations(tasks[t].self) : r.options.cascade
    /\ \E r \in SavedRelations(tasks[t].self) :
         ~r.options.cascade /\ ~DeletedByUser(r.options.dest)

\* the identifiers of the documents of collection c whose field p is v
IdsWhere(c, p, v) ==
  {store[c][k]["_id"] : k \in {j \in 1..Len(store[c]) : Matches(store[c][j], p :> v)}}

\* C5: loading an owner yields, in its ONE_TO_MANY field, exactly the children
\* whose stored back reference is the owner's identifier (none for an owner
\* without children): seen right after the load, with nothing in flight.
C5_OwnerChildren ==
  \A t \in FindByIDs :
    (Latest(t) /\ Idle /\ fails = <<>> /\ tasks[t].res # <<0>>)
    => LET o == tasks[t].res[1]
           rs == RelsOf(objs[o].cls, {ONE_TO_MANY})
       IN \A k \in 1..Len(rs) :
            {objs[m].id : m \in SeqToSet(objs[o].f[rs[k].name])}
            = IdsWhere(rs[k].options.dest, RelPath(rs[k].options.backref), objs[o].id)

\* the save calls of user code that resolved, on classes with plain columns only
PlainSaves ==
  {t \in TopTasks : /\ tasks[t].call = "save" /\ tasks[t].st = "ok"
                    /\ meta[tasks[t].cls].relations = <<>>
                    /\ meta[tasks[t].cls].primaryKey = UNDEF}

\* findByID on the identifier of the instance save call ts saved, made right
\* after ts and not followed by anything yet
LoadsAfter(ts) ==
  {t \in TopTasks : /\ tasks[t].kind = "findByID" /\ tasks[t].st # "run"
                    /\ tasks[t].cls = tasks[ts].cls
                    /\ tasks[t].q["_id"] = objs[tasks[ts].self].id
                    /\ tasks[t].ord = tasks[ts].ord + 1 /\ Latest(t)}

\* C6: for an entity type with plain columns only, save followed by findByID
\* on the saved instance's identifier yields an instance whose plain columns
\* have the values they had when save was called.
C6_SaveFindRoundTrip ==
  \A ts \in PlainSaves : \A t \in LoadsAfter(ts) :
    /\ tasks[t].st = "ok" /\ tasks[t].res # <<0>>
    /\ ColsOf(tasks[t].res[1]) = tasks[ts].snap

\* a save of an instance with a column value, followed by a findByID that
\* returned an instance
C6_Witness ==
  \E ts \in PlainSaves : \E t \in LoadsAfter(ts) :
    /\ tasks[t].st = "ok" /\ tasks[t].res # <<0>>
    /\ \E k \in DOMAIN tasks[ts].snap : tasks[ts].snap[k] \in Values

\* the update calls user code makes in this step on an instance without _id
UnsavedUpdates ==
  {t \in DOMAIN tasks' \ DOMAIN tasks :
     tasks'[t].call = "update" /\ ~Truthy(objs[tasks'[t].self].id)}

\* C7: update on an instance that has no _id fails with the usage error and
\* issues no store call: the store, the operations in flight and the Identity
\* Cache are what they were.
C7_UpdateUnsaved ==
  [][\A t \in UnsavedUpdates :
       /\ tasks'[t].st = "err" /\ tasks'[t].errk = "usage"
       /\ pend' = pend /\ store' = store /\ cache' = cache]_vars

\* an update call on an instance without _id has been made and has failed
C7_Witness ==
  \E t \in TopTasks :
    /\ tasks[t].call = "update" /\ tasks[t].errk = "usage"
    /\ ~Truthy(objs[tasks[t].self].id)

\* C8: delete(O) removes the documents of the instances related through
\* cascade relations before it removes O's own: while no store operation has
\* failed, O's document is never gone with a cascade-related document still
\* in the store.
C8_CascadeBeforeOwn ==
  \A t \in TopTasks :
    (/\ tasks[t].kind = "delete" /\ fails = <<>>
     /\ objs[tasks[t].self].id \notin StoredIds(tasks[t].cls))
    => \A r \in tasks[t].rel : r[2] \notin StoredIds(r[1])

\* C9: an entry of the Identity Cache that holds an instance is never evicted
\* or replaced, whatever is loaded, saved or deleted (seen here while no store
\* operation has failed).
C9_CacheEntryStable ==
  [][fails' = <<>> =>
       \A c \in Classes : \A id \in DOMAIN cache[c] :
         cache[c][id] # 0 => (id \in DOMAIN cache'[c] /\ cache'[c][id] = cache[c][id])]_vars

\* findByID calls of user code for an identifier no document was ever stored
\* under, while no find of the store has failed
AbsentLoads ==
  {t \in TopTasks : /\ tasks[t].kind = "findByID"
                    /\ <<tasks[t].cls, tasks[t].q["_id"]>> \notin everStored
                    /\ \A k \in 1..Len(fails) : fails[k] # "find"}

KeyFinds ==
  {t \in Loads : /\ tasks[t].kind = "find" /\ Latest(t) /\ Idle
                 /\ meta[tasks[t].cls].primaryKey \in DOMAIN tasks[t].q}

\* C11: for a type with a primary key, find({pk: v}) is a query on _id: it
\* returns one instance for each stored document whose _id is v (one at most)
\* and nothing else.
C11_FindByPrimaryKey ==
  \A t \in KeyFinds :
    LET v == tasks[t].q[meta[tasks[t].cls].primaryKey]
    IN /\ \A o \in Results(t) : objs[o].id = v
       /\ Len(tasks[t].res) = Len(FindDocs(tasks[t].cls, IdQuery(v)))

\* with two documents stored, find on the primary key returned exactly one
C11_Witness ==
  \E t \in KeyFinds :
    /\ Len(store[tasks[t].cls]) = 2
    /\ Len(tasks[t].res) = 1
    /\ objs[tasks[t].res[1]].id = tasks[t].q[meta[tasks[t].cls].primaryKey]

\* the delete calls user code makes in this step on an instance without _id
UnsavedDeletes ==
  {t \in DOMAIN tasks' \ DOMAIN tasks :
     tasks'[t].call = "delete" /\ ~Truthy(objs[tasks'[t].self].id)}

\* C12: delete on an instance that has no _id resolves false and does nothing:
\* no store operation is issued (none for a cascade-related instance either)
\* and no other call is started.
C12_DeleteUnsaved ==
  [][\A t \in UnsavedDeletes :
       /\ tasks'[t].st = "ok" /\ tasks'[t].res = <<FALSE>>
       /\ pend' = pend /\ store' = store
       /\ DOMAIN tasks' = DOMAIN tasks \cup {t}]_vars

\* delete resolved false for an unsaved instance whose cascade relation holds
\* an instance with a stored document
C12_Witness ==
  \E t \in TopTasks :
    /\ tasks[t].call = "delete" /\ tasks[t].res = <<FALSE>>
    /\ ~Truthy(objs[tasks[t].self].id)
    /\ \E m \in SeqToSet(CascadeTargets(objs, tasks[t].self)) :
         Truthy(objs[m].id) /\ objs[m].id \in StoredIds(objs[m].cls)

\* the delete calls of user code on an instance with _id, when it is the only
\* delete call made and nothing is in flight
SoleDeletes ==
  {t \in TopTasks : /\ tasks[t].call = "delete" /\ Idle
                    /\ Truthy(objs[tasks[t].self].id)
                    /\ \A u \in TopTasks : tasks[u].call = "delete" => u = t}

\* C13: delete on a saved instance reports true exactly when the instance's
\* own document was removed from the store, whatever happens to the deletes
\* of its cascade-related instances.
C13_DeleteReportsOwnRemoval ==
  \A t \in SoleDeletes :
    LET o == objs[tasks[t].self]
    IN (tasks[t].st = "ok" /\ tasks[t].res = <<TRUE>>)
         <=> (<<o.cls, o.id>> \in everStored /\ o.id \notin StoredIds(o.cls))

\* the save calls user code makes in this step on an instance that has an _id
SavedSaves ==
  {t \in DOMAIN tasks' \ DOMAIN tasks :
     tasks'[t].call = "save" /\ Truthy(objs[tasks'[t].self].id)}

\* the instances the relation fields of o hold
Related(o) ==
  LET rs == RelsOf(objs[o].cls, {ONE_TO_ONE, MANY_TO_ONE, ONE_TO_MANY})
  IN UNION {IF rs[k].options.type = ONE_TO_MANY THEN SeqToSet(objs[o].f[rs[k].name])
            ELSE {objs[o].f[rs[k].name]} \ {0} : k \in 1..Len(rs)}

TopSaves == {t \in TopTasks : tasks[t].kind = "save"}

\* C16: the test against the caller stops a cycle of two unsaved instances
\* only. With three unsaved instances in a cycle of ONE_TO_ONE relations the
\* nested _save calls never end: the save call never settles and no document
\* is ever inserted. With two, the nested calls of a save always end (only a
\* delete call can nest without end there), and the save resolves once the
\* store has answered without error.
C16_CycleGuardOneLevel ==
  /\ scen = "ring" =>
       /\ store["N"] = <<>>
       /\ \A k \in DOMAIN pend : pend[k].op # "insert"
       /\ \A t \in TopSaves : stuck /\ tasks[t].st = "run"
  /\ scen = "cycle" =>
       /\ stuck => \E t \in TopTasks : Latest(t) /\ tasks[t].call = "delete"
       /\ \A t \in TopSaves : (Idle /\ fails = <<>>) => tasks[t].st = "ok"

\* save has been called on an instance of the cycle of three and its nested
\* calls did not end
C16_Witness ==
  /\ scen = "ring" /\ stuck
  /\ \E t \in TopSaves : tasks[t].st = "run" /\ objs[tasks[t].self].f.next # 0

\* the find calls of user code that are the latest thing it did, with nothing
\* in flight: the store is what it was during the call
Finds == {t \in TopTasks : tasks[t].kind = "find" /\ Latest(t) /\ Idle}

\* the document an instance returned by a find was hydrated from
DocOf(o) == FirstMatch(objs[o].cls, IdQuery(objs[o].id))

\* the ONE_TO_ONE and MANY_TO_ONE relations of the instance o whose stored
\* identifier names a document that was stored once and is there no more
Dangling(o) ==
  LET rs == RelsOf(objs[o].cls, SingleTypes)
      d == store[objs[o].cls][DocOf(o)]
  IN {rs[k] : k \in {j \in 1..Len(rs) :
        /\ objs[o].id \in StoredIds(objs[o].cls)
        /\ RelPath(rs[j].name) \in DOMAIN d
        /\ <<rs[j].options.dest, d[RelPath(rs[j].name)]>> \in everStored
        /\ d[RelPath(rs[j].name)] \notin StoredIds(rs[j].options.dest)}}

\* the identifier the document of o stores for the relation r
StoredRel(o, r) == store[objs[o].cls][DocOf(o)][RelPath(r.name)]

\* C20 as stated: a relation whose stored identifier refers to a document that
\* no longer exists is empty after hydration, and the load resolves.
C20_DanglingResolvesEmpty ==
  \A t \in Finds :
    /\ fails = <<>> => tasks[t].st = "ok"
    /\ \A o \in Results(t) : \A r \in Dangling(o) : objs[o].f[r.name] = 0

\* C20: a relation whose stored identifier refers to a document that no
\* longer exists is resolved through the Identity Cache: after hydration it
\* holds the instance the cache has for that identifier, and it is empty when
\* the cache has none; the load resolves unless a store operation failed.
C20_DanglingResolvesFromCache ==
  \A t \in Finds :
    /\ fails = <<>> => tasks[t].st = "ok"
    /\ \A o \in Results(t) : \A r \in Dangling(o) :
         objs[o].f[r.name] = CacheGet([cache |-> cache], r.options.dest, StoredRel(o, r))

\* a find resolved with an instance whose relation names a document that is
\* gone and that nothing is cached for: the relation is empty
C20_Witness ==
  \E t \in Finds :
    /\ tasks[t].st = "ok"
    /\ \E o \in Results(t) : \E r \in Dangling(o) :
         /\ objs[o].f[r.name] = 0
         /\ CacheGet([cache |-> cache], r.options.dest, StoredRel(o, r)) = 0

\* the insert operations in flight for the instance o
InsertsOf(pd, tk, o) ==
  {k \in DOMAIN pd : pd[k].op = "insert" /\ tk[pd[k].tid].self = o}

\* the save calls user code makes in this step on an instance whose many-to-one
\* target m has no _id yet while an insert of m is already in flight
SharedSaves(m) ==
  {t \in DOMAIN tasks' \ DOMAIN tasks :
     /\ tasks'[t].top /\ tasks'[t].call = "save" /\ tasks'[t].cls = "K"
     /\ objs[tasks'[t].self].f.owner = m
     /\ ~Truthy(objs[m].id)
     /\ InsertsOf(pend, tasks, m) # {}}

\* C15: a save chain that reaches an unsaved many-to-one target while another
\* chain's insert of that target is still in flight does not wait for it: it
\* queues an insert of the target of its own, so that two inserts of the one
\* instance are in flight.
C15_BothChainsInsert ==
  [][\A m \in DOMAIN objs : \A t \in SharedSaves(m) :
       Cardinality(InsertsOf(pend', tasks', m))
         = Cardinality(InsertsOf(pend, tasks, m)) + 1]_vars

\* two owners were saved without awaiting and the store holds two documents
\* for their one many-to-one target
C15_Witness ==
  /\ Cardinality({o \in DOMAIN objs : objs[o].cls = "O"}) = 1
  /\ Len(store["O"]) = 2
  /\ \E t1 \in TopSaves : \E t2 \in TopSaves :
       /\ tasks[t1].cls = "K" /\ tasks[t2].cls = "K"
       /\ tasks[t1].self # tasks[t2].self
       /\ objs[tasks[t1].self].f.owner = objs[tasks[t2].self].f.owner

\* the number of times class c has the field name k registered, over the
\* primary key, the plain columns and the relations
Registered(c, k) ==
  (IF meta[c].primaryKey = k THEN 1 ELSE 0)
  + Cardinality({j \in 1..Len(meta[c].keys) : meta[c].keys[j] = k})
  + Cardinality({j \in 1..Len(meta[c].relations) : meta[c].relations[j].name = k})

\* C17: every field of a class is registered once: as the primary key, as a
\* plain column or as one relation.
C17_OneClassification ==
  \A c \in Classes : \A k \in Keys : Registered(c, k) <= 1

\* the decorator call made in this step, if one is made
Applied == IF decl' # decl THEN {decl'[Len(decl')]} ELSE {}

\* the decorator calls the claim is about: a name with the reserved prefix, a
\* target that is no Model, a relation to a class that is no Model
Misdeclared(d) ==
  \/ StartsWithUnderscore(d.key)
  \/ ~IsModel(d.target)
  \/ d.options.relation.type # 0 /\ ~IsModel(d.options.relation.dest)

\* C18: a decorator applied on a member whose name starts with '_', on a
\* target that is no Model, or with a relation destination that is no Model
\* throws, and the metadata of every class is what it was.
C18_MisdeclarationThrows ==
  [][\A d \in Applied : Misdeclared(d) => (d.err # "" /\ meta' = meta)]_vars

\* after a first declaration was registered, a relation to a class that is no
\* Model was declared on a Model, under an ordinary name, and threw: the
\* metadata holds the first declaration only
C18_Witness ==
  /\ Len(decl) = 2
  /\ decl[1].err = "" /\ decl[2].err # ""
  /\ IsModel(decl[2].target) /\ ~StartsWithUnderscore(decl[2].key)
  /\ decl[2].options.relation.type # 0
  /\ meta = AddColumn([c \in Classes |-> EmptyMetadata],
                      decl[1].target, decl[1].key, decl[1].options)

\* the ONE_TO_MANY relations registered, each with its class
OneToMany ==
  UNION {{<<c, meta[c].relations[j]>> :
            j \in {i \in 1..Len(meta[c].relations) :
                      meta[c].relations[i].options.type = ONE_TO_MANY}} :
         c \in Classes}

\* C19: when class c has a ONE_TO_MANY relation with destination D and back
\* reference f registered, D has a MANY_TO_ONE relation named f with
\* destination c registered.
C19_BackrefRegistered ==
  \A p \in OneToMany :
    \E j \in 1..Len(meta[p[2].options.dest].relations) :
      LET b == meta[p[2].options.dest].relations[j]
      IN /\ b.name = p[2].options.backref
         /\ b.options.type = MANY_TO_ONE
         /\ b.options.dest = p[1]

\* a ONE_TO_MANY relation is registered and no decorator was ever applied on
\* its destination class, whose metadata holds the back reference
C19_Witness ==
  \E p \in OneToMany :
    /\ \A k \in DOMAIN decl : decl[k].target # p[2].options.dest
    /\ Len(meta[p[2].options.dest].relations) = 1
    /\ meta[p[2].options.dest].relations[1].name = p[2].options.backref

\* the save calls of user code that resolved and are the latest thing it did
SavesDone == {t \in TopSaves : tasks[t].st = "ok" /\ Latest(t)}

\* C21: when save(X) has resolved, every _save it started, for a ONE_TO_ONE or
\* MANY_TO_ONE relation before the insert or for a ONE_TO_MANY relation after
\* it, has finished: no such call is still running, and every instance it
\* started saving has an _id and a document in the store.
C21_SaveAwaitsRelated ==
  \A t \in SavesDone : \A m \in tasks[t].sub :
    /\ Truthy(objs[m].id)
    /\ objs[m].id \in StoredIds(objs[m].cls)
    /\ \A u \in DOMAIN tasks : ~(tasks[u].kind = "save" /\ tasks[u].self = m
                                 /\ tasks[u].st = "run")

\* a save has resolved that had started the saves of instances of both
\* kinds: a single-valued relation and the members of an array relation
C21_Witness ==
  \E t \in SavesDone :
    /\ \E m \in tasks[t].sub : objs[m].cls = "O"
    /\ \E m \in tasks[t].sub : objs[m].cls = "K"

\* the instances a resolved save inserted: its own and those it started saving
InsertedBy(t) == {tasks[t].self} \cup tasks[t].sub

\* the save calls of user code that resolved, when nothing else was called:
\* the relation fields held, at the call, what user code had put in them
FirstSaves == {t \in SavesDone : \A u \in TopTasks : u = t}

\* the ONE_TO_ONE and MANY_TO_ONE relations of the instance m in which user
\* code put an instance
HeldRelations(m) ==
  LET rs == RelsOf(objs[m].cls, SingleTypes)
  IN {rs[k] : k \in {j \in 1..Len(rs) : Graphs[scen][m].f[rs[j].name] # 0}}

\* C22: when a save of user code has resolved, the document of every instance
\* it inserted stores, for each ONE_TO_ONE or MANY_TO_ONE relation of the
\* instance that held an instance when save was called, the _id of that
\* instance; so do both documents of a cycle of two.
C22_RelationIdsStored ==
  \A t \in FirstSaves : \A m \in InsertedBy(t) : \A r \in HeldRelations(m) :
    /\ objs[m].id \in StoredIds(objs[m].cls)
    /\ StoredRel(m, r) = objs[Graphs[scen][m].f[r.name]].id

\* the inserts in flight of a member of a ONE_TO_MANY relation, issued by the
\* _save its owner called: <<position in pend, owner, relation>>
ChildInserts ==
  {<<k, o, r>> \in (DOMAIN pend) \X (DOMAIN objs)
                    \X UNION {SeqToSet(meta[c].relations) : c \in Classes} :
     /\ pend[k].op = "insert"
     /\ tasks[pend[k].tid].caller = o
     /\ r \in SeqToSet(RelsOf(objs[o].cls, {ONE_TO_MANY}))
     /\ tasks[pend[k].tid].self \in SeqToSet(objs[o].f[r.name])}

\* the documents in the store of a member of a ONE_TO_MANY relation of a saved
\* owner that user code built: <<member, owner, relation>>
ChildDocs ==
  {<<m, o, r>> \in (DOMAIN objs) \X (DOMAIN objs)
                    \X UNION {SeqToSet(meta[c].relations) : c \in Classes} :
     /\ objs[m].by = "user" /\ objs[o].by = "user"
     /\ r \in SeqToSet(RelsOf(objs[o].cls, {ONE_TO_MANY}))
     /\ m \in SeqToSet(Graphs[scen][o].f[r.name])
     /\ objs[m].id \in StoredIds(objs[m].cls)}

\* C23: the insert of a member of a ONE_TO_MANY relation is issued when its
\* owner has its _id and the member's back reference holds the owner: the
\* document handed to the store carries the owner's _id under the back
\* reference of its relation section.
C23_ChildCarriesOwner ==
  \A x \in ChildInserts :
    LET m == tasks[pend[x[1]].tid].self
        backref == x[3].options.backref
    IN /\ Truthy(objs[x[2]].id)
       /\ objs[m].f[backref] = x[2]
       /\ pend[x[1]].doc[RelPath(backref)] = objs[x[2]].id

\* the owner and a member that had no back reference when save was called
\* are both stored, and the member's document names the owner
C23_Witness ==
  \E x \in ChildDocs :
    /\ Graphs[scen][x[1]].f[x[3].options.backref] = 0
    /\ objs[x[2]].id \in StoredIds(objs[x[2]].cls)
    /\ StoredRel(x[1], [name |-> x[3].options.backref]) = objs[x[2]].id

\* the hydrations that are resolving the relations of their instance
Resolving == {u \in DOMAIN tasks : tasks[u].kind = "hydrate" /\ tasks[u].pc \in {"h_rel", "h_set"}}

\* C24: while updateFromDocument resolves the relations of an instance, the
\* Identity Cache holds an instance for its _id; and every load ends: the
\* calls of a load never nest without end, and once the store has answered,
\* without error, every find, all and findByID of user code has resolved.
C24_LoadsTerminate ==
  /\ \A u \in Resolving :
       CacheGet([cache |-> cache], tasks[u].cls, objs[tasks[u].self].id) # 0
  /\ stuck => \E t \in TopTasks : Latest(t) /\ tasks[t].call \in {"save", "delete"}
  /\ \A t \in TopTasks :
       (tasks[t].kind \in {"find", "findByID"} /\ Idle /\ fails = <<>>)
         => tasks[t].st = "ok"

\* a find over two documents that name each other resolved: the instance
\* built for the one holds an instance whose relation leads back to its _id
C24_Witness ==
  \E t \in Finds :
    /\ tasks[t].st = "ok" /\ tasks[t].cls = "N"
    /\ \E o \in Results(t) :
         /\ objs[o].f.next # 0
         /\ objs[objs[o].f.next].id # objs[o].id
         /\ objs[objs[o].f.next].f.next # 0
         /\ objs[objs[objs[o].f.next].f.next].id = objs[o].id

\* C25: when delete(O) has resolved true, with no store error, the document
\* of every instance whose delete it started through a cascade relation is
\* gone from the store.
C25_CascadeDoneAtResolve ==
  \A t \in TopTasks :
    (/\ tasks[t].kind = "delete" /\ fails = <<>>
     /\ tasks[t].st = "ok" /\ tasks[t].res = <<TRUE>>)
    => \A r \in tasks[t].rel : r[2] \notin StoredIds(r[1])

\* C26: an empty ONE_TO_ONE or MANY_TO_ONE relation is stored as the text
\* "undefined", and hydration leaves a relation stored that way empty,
\* whatever the destination collection holds.
C26_SentinelStaysEmpty ==
  /\ \A k \in DOMAIN pend :
       pend[k].op \in {"insert", "update"} =>
         \A r \in SeqToSet(RelsOf(pend[k].cls, SingleTypes)) :
           objs[tasks[pend[k].tid].self].f[r.name] = 0
             => pend[k].doc[RelPath(r.name)] = SENTINEL
  /\ \A t \in Finds : \A o \in Results(t) :
       \A r \in SeqToSet(RelsOf(objs[o].cls, SingleTypes)) :
         (/\ objs[o].id \in StoredIds(objs[o].cls)
          /\ StoredRel(o, r) = SENTINEL)
         => objs[o].f[r.name] = 0

\* the inserts that are answered with an error in this step: the positions in
\* pend of the insert whose call is rejected
FailedInserts ==
  {k \in DOMAIN pend :
     /\ pend[k].op = "insert"
     /\ fails' = Append(fails, "insert")
     /\ \/ pend[k].tid \notin DOMAIN tasks'
        \/ tasks'[pend[k].tid].st = "err" /\ tasks[pend[k].tid].st = "run"}

\* the instance m is a value of the Identity Cache ch
Cached(ch, m) == \E c \in Classes : \E key \in DOMAIN ch[c] : ch[c][key] = m

\* every instance that has an _id got it from a document that was stored
IdsComeFromStore ==
  \A m \in DOMAIN objs :
    Truthy(objs[m].id) => <<objs[m].cls, objs[m].id>> \in everStored

\* C27: an instance has an _id only once a document was stored under it (its
\* own insert succeeded, or it was hydrated from a stored document); when the
\* insert of an instance fails, the instance is left without _id, it is not
\* in the Identity Cache and the store holds what it held.
C27_IdOnlyAfterInsert ==
  [][/\ IdsComeFromStore'
     /\ \A k \in FailedInserts :
          LET m == tasks[pend[k].tid].self
          IN /\ ~Truthy(objs'[m].id)
             /\ ~Cached(cache', m)
             /\ store' = store]_vars

\* the insert of an instance failed: the save of user code was rejected and
\* the instance has no _id
C27_Witness ==
  \E t \in TopSaves :
    /\ tasks[t].st = "err" /\ tasks[t].errk = "store"
    /\ fails = <<"insert">>
    /\ ~Truthy(objs[tasks[t].self].id)
    /\ ~Cached(cache, tasks[t].self)


\* the keys of a document that lie in its relation section
RelKeys(doc) ==
  {p \in DOMAIN doc :
     \E c \in Classes : \E k \in 1..Len(meta[c].relations) :
       p = RelPath(meta[c].relations[k].name)}

\* the documents of class c: those its collection holds and those on their
\* way to it in an insert or an update
DocsOf(c) ==
  SeqToSet(store[c])
  \cup {pend[k].doc : k \in {j \in 1..Len(pend) :
                               pend[j].cls = c /\ pend[j].op \in {"insert", "update"}}}

\* C28: the relation section of every document of an entity type, stored or
\* handed to the store by a save or an update, holds entries for exactly the
\* ONE_TO_ONE and MANY_TO_ONE relations of the type, and so none for a
\* ONE_TO_MANY relation.
C28_NoOneToManyStored ==
  \A c \in Classes : \A doc \in DocsOf(c) :
    LET rs == RelsOf(c, SingleTypes)
    IN RelKeys(doc) = {RelPath(rs[k].name) : k \in 1..Len(rs)}

\* an owner that holds children was saved and then updated
C28_Witness ==
  \E t \in TopTasks :
    /\ tasks[t].kind = "update" /\ tasks[t].st = "ok" /\ tasks[t].cls = "O"
    /\ objs[tasks[t].self].f["kids"] # <<>>
    /\ store["O"] # <<>>
    /\ \E u \in TopSaves : tasks[u].self = tasks[t].self /\ tasks[u].st = "ok"


\* the field names the Schema Registry holds for class c
RegisteredNames(c) ==
  (IF meta[c].primaryKey # UNDEF THEN {meta[c].primaryKey} ELSE {})
  \cup SeqToSet(meta[c].keys)
  \cup {meta[c].relations[k].name : k \in 1..Len(meta[c].relations)}

\* C29: no field name registered for any class (primary key, plain column or
\* relation, the back reference that a ONE_TO_MANY declaration registers on
\* its destination included) starts with '_'.
C29_NoReservedNames ==
  \A c \in Classes : \A name \in RegisteredNames(c) : ~StartsWithUnderscore(name)


KeyedClasses == {c \in Classes : meta[c].primaryKey # UNDEF}

\* the save calls on an instance of a class with a primary key that resolved
\* and are the latest thing user code did
KeyedSaves ==
  {t \in TopTasks : /\ tasks[t].call = "save" /\ tasks[t].st = "ok" /\ Latest(t)
                    /\ tasks[t].cls \in KeyedClasses}

\* the instances of a class with a primary key that the latest find built
\* from a document
KeyedLoaded ==
  UNION {Results(t) : t \in {u \in Loads : /\ tasks[u].kind = "find" /\ Latest(u)
                                           /\ tasks[u].cls \in KeyedClasses}}

\* C30: for a class with a primary key, the primary-key field of an instance is
\* its _id when its save has resolved and when a find has built it from a
\* document, and every document handed to the store carries the primary-key
\* value of its instance as _id.
C30_PrimaryKeyMirrorsId ==
  /\ \A t \in KeyedSaves :
       objs[tasks[t].self].f[meta[tasks[t].cls].primaryKey] = objs[tasks[t].self].id
  /\ \A o \in KeyedLoaded : objs[o].f[meta[objs[o].cls].primaryKey] = objs[o].id
  /\ \A k \in 1..Len(pend) :
       (pend[k].op \in {"insert", "update"} /\ pend[k].cls \in KeyedClasses)
       => pend[k].doc["_id"]
            = objs[tasks[pend[k].tid].self].f[meta[pend[k].cls].primaryKey]


\* C31: when a save of user code has resolved and no store operation failed,
\* the Identity Cache holds, under the _id of the saved instance and of every
\* instance the save started saving, that very instance.
C31_SavedInstancesCached ==
  \A t \in FirstSaves :
    fails = <<>> =>
      \A m \in InsertedBy(t) :
        Truthy(objs[m].id) => cache[objs[m].cls][PropKey(objs[m].id)] = m


\* C32: no instance has two inserts at the store at one time.  User code
\* awaits each call, so the inserts in flight all belong to one save call.
C32_InsertedOnce ==
  \A m \in DOMAIN objs : Cardinality(InsertsOf(pend, tasks, m)) <= 1


EmptyCascade(o) ==
  LET rs == CascadeRels(objs[o].cls)
  IN \E k \in 1..Len(rs) :
       IF rs[k].options.type = ONE_TO_MANY THEN objs[o].f[rs[k].name] = <<>>
       ELSE objs[o].f[rs[k].name] = 0

\* C34: a delete of user code on an instance that has a stored document and a
\* cascade relation holding no instance resolves true and removes the
\* document, when no store operation failed.
C34_EmptyCascadeDeletes ==
  \A t \in SoleDeletes :
    (/\ fails = <<>> /\ ~stuck /\ Latest(t)
     /\ EmptyCascade(tasks[t].self)
     /\ <<tasks[t].cls, objs[tasks[t].self].id>> \in everStored)
    => /\ tasks[t].st = "ok" /\ tasks[t].res = <<TRUE>>
       /\ objs[tasks[t].self].id \notin StoredIds(tasks[t].cls)


\* the delete calls of user code on the instance m that resolved true
DeletedOk(m) ==
  {t \in TopTasks : /\ tasks[t].call = "delete" /\ tasks[t].self = m
                    /\ tasks[t].st = "ok" /\ tasks[t].res = <<TRUE>>}

\* the calls of user code named call on the instance m made after a delete of
\* m resolved true
AfterDelete(m, call) ==
  {t \in TopTasks : /\ tasks[t].call = call /\ tasks[t].self = m
                    /\ \E d \in DeletedOk(m) : tasks[d].ord < tasks[t].ord}

\* an instance whose delete resolved true has its _id; a save called on it
\* afterwards is an update and no insert of the instance is at the store; a
\* delete called on it afterwards, once settled with no store failure, has
\* resolved false
DeletedStaysSaved ==
  \A m \in DOMAIN objs :
    DeletedOk(m) # {} =>
      /\ Truthy(objs[m].id)
      /\ InsertsOf(pend, tasks, m) = {}
      /\ \A t \in AfterDelete(m, "save") : tasks[t].kind = "update"
      /\ \A t \in AfterDelete(m, "delete") :
           (tasks[t].st # "run" /\ fails = <<>>)
           => (tasks[t].st = "ok" /\ tasks[t].res = <<FALSE>>)

\* C35: the step in which delete(X) resolves true changes neither the _id of X
\* nor the Identity Cache; afterwards X keeps its _id, so that save(X) takes
\* the update path and inserts nothing, and another delete(X) resolves false.
C35_DeleteKeepsIdentity ==
  [][/\ DeletedStaysSaved'
     /\ \A m \in DOMAIN objs :
          (DeletedOk(m) = {} /\ DeletedOk(m)' # {})
          => (objs'[m].id = objs[m].id /\ cache' = cache)]_vars

\* after a delete of an instance resolved true, a second delete of it has
\* resolved false
C35_Witness ==
  \E m \in DOMAIN objs : \E t \in AfterDelete(m, "delete") :
    tasks[t].st = "ok" /\ tasks[t].res = <<FALSE>> /\ fails = <<>>


\* the findByID calls of user code that resolved with the empty result
Misses ==
  {t \in TopTasks : /\ tasks[t].kind = "findByID" /\ tasks[t].st = "ok"
                    /\ tasks[t].res = <<0>>}

\* the save calls of user code that inserted and resolved, for an instance
\* whose _id is the identifier an earlier findByID of its class had missed
SavedAfterMiss ==
  {s \in TopTasks :
     /\ tasks[s].call = "save" /\ tasks[s].kind = "save" /\ tasks[s].st = "ok"
     /\ \E t \in Misses : /\ tasks[t].ord < tasks[s].ord
                          /\ tasks[t].cls = tasks[s].cls
                          /\ tasks[t].q["_id"] = objs[tasks[s].self].id}

\* C36: once a save has stored an instance under an identifier that findByID
\* had missed before, the Identity Cache holds the instance under that
\* identifier and every later findByID of the identifier that resolved
\* returned it.
C36_MissNotPermanent ==
  \A s \in SavedAfterMiss :
    LET X == tasks[s].self
    IN /\ cache[tasks[s].cls][PropKey(objs[X].id)] = X
       /\ \A t \in TopTasks :
            (/\ tasks[t].kind = "findByID" /\ tasks[t].cls = tasks[s].cls
             /\ tasks[t].q["_id"] = objs[X].id
             /\ tasks[t].ord > tasks[s].ord /\ tasks[t].st = "ok")
            => tasks[t].res = <<X>>

\* findByID missed an identifier, an instance was saved under it, and a later
\* findByID of the identifier returned the instance
C36_Witness ==
  \E s \in SavedAfterMiss : \E t \in TopTasks :
    /\ tasks[t].kind = "findByID" /\ tasks[t].cls = tasks[s].cls
    /\ tasks[t].q["_id"] = objs[tasks[s].self].id
    /\ tasks[t].ord > tasks[s].ord /\ tasks[t].st = "ok"
    /\ tasks[t].res = <<tasks[s].self>>

====
